---- MODULE Spec2Model ----
(***************************************************************************)
(* MAVLink Router Prometheus exporter (data_parser.py).                    *)
(*                                                                         *)
(* One process reads the router's statistics report line by line from      *)
(* stdin, walks a nine-state parser over it, writes one metric line per    *)
(* extracted number to a cache file and, when a boundary line arrives      *)
(* more than 0.9 s after the previous line, copies the cache file to the   *)
(* .prom file that the metrics collector scrapes.                          *)
(*                                                                         *)
(* An input line is modelled as a sequence of one-character strings, so    *)
(* that str.find, slicing and re.findall are computed as Python computes   *)
(* them; the pieces cut out of a line are strings.                         *)
(* Files are modelled as the runtime implements them: a file object        *)
(* buffers what is written to it and hands it to the file on disk, as one  *)
(* write at the object's own offset, when it is closed; CPython closes a   *)
(* file object as soon as the last reference to it is dropped.             *)
(* Time is counted in tenths of a second, from the moment the last time    *)
(* stamp was taken: the program only compares the clock with that stamp.   *)
(***************************************************************************)
EXTENDS Integers, Sequences, FiniteSets, TLC

\* ------------------------------------------------------------------ bounds
\* The observer of well-formed rounds follows rounds of at most this many
\* endpoint reports.
MaxRound == 2

\* --------------------------------------------------------- text primitives
Digit == {"0", "1", "2", "3", "4", "5", "6", "7", "8", "9"}

SetMin(S) == CHOOSE x \in S : \A y \in S : x <= y

\* sub occurs in s at the 0-based offset i
OccursAt(s, sub, i) ==
    /\ i >= 0
    /\ i + Len(sub) <= Len(s)
    /\ \A k \in 1..Len(sub) : s[i + k] = sub[k]

\* str.find(sub, start, end): the lowest 0-based offset in [start, end) at
\* which sub occurs as a whole, -1 when there is none
Find(s, sub, start, end) ==
    LET hits == {i \in start..(end - Len(sub)) : OccursAt(s, sub, i)}
    IN  IF hits = {} THEN -1 ELSE SetMin(hits)

\* line.find(sub) != -1
Contains(s, sub) == Find(s, sub, 0, Len(s)) # -1

\* A slice index as Python normalises it: negative counts from the end, and
\* the result is clamped to 0..n
SliceIndex(i, n) ==
    IF i < 0 THEN (IF i + n < 0 THEN 0 ELSE i + n)
    ELSE IF i > n THEN n ELSE i

\* s[start:end]
Slice(s, start, end) ==
    LET a == SliceIndex(start, Len(s))
        b == SliceIndex(end, Len(s))
    IN  IF a >= b THEN <<>> ELSE SubSeq(s, a + 1, b)

\* The characters of s as one string: what the program holds once it has
\* cut a piece out of a line
RECURSIVE Str(_)
Str(s) == IF s = <<>> THEN "" ELSE Head(s) \o Str(Tail(s))

\* re.findall(r"\d+", s): the maximal runs of decimal digits, left to right
RECURSIVE DigitScan(_, _, _)
DigitScan(s, i, run) ==
    IF i > Len(s)
    THEN (IF run = "" THEN <<>> ELSE <<run>>)
    ELSE IF s[i] \in Digit
         THEN DigitScan(s, i + 1, run \o s[i])
         ELSE (IF run = "" THEN <<>> ELSE <<run>>) \o DigitScan(s, i + 1, "")

re_findall_digits(s) == DigitScan(s, 1, "")

\* ------------------------------------------------------- string constants
STR_TCP_ENDPOINT == <<"T","C","P"," ","E","n","d","p","o","i","n","t">>
STR_UDP_ENDPOINT == <<"U","D","P"," ","E","n","d","p","o","i","n","t">>
STR_UART_ENDPOINT == <<"U","A","R","T"," ","E","n","d","p","o","i","n","t">>
STR_CRC_ERROR == <<"C","R","C"," ","e","r","r","o","r">>
STR_SEQUENCE_LOST == <<"S","e","q","u","e","n","c","e"," ","l","o","s","t">>
STR_HANDLED == <<"H","a","n","d","l","e","d">>
STR_TOTAL == <<"T","o","t","a","l">>
DEFAULT == "DEFAULT"

METRIC_REC_CRCERR_CNT == "mavlinkrouter_receive_crcerror_count"
METRIC_REC_CRCERR_PCT == "mavlinkrouter_receive_crcerror_percent"
METRIC_REC_CRCERR_KB == "mavlinkrouter_receive_crcerror_kilo_byte"
METRIC_REC_SEQLOST_CNT == "mavlinkrouter_receive_seqlost_count"
METRIC_REC_SEQLOST_PCT == "mavlinkrouter_receive_seqlost_percent"
METRIC_REC_HANDLED_CNT == "mavlinkrouter_receive_handled_count"
METRIC_REC_HANDLED_KB == "mavlinkrouter_receive_handled_kilo_byte"
METRIC_REC_TOTAL_CNT == "mavlinkrouter_receive_total_count"
METRIC_TRANSM_TOTAL_CNT == "mavlinkrouter_transmit_total_count"
METRIC_TRANSM_TOTAL_KB == "mavlinkrouter_transmit_total_kilo_byte"

\* ----------------------------------------------------------- parser states
IDLE == "IDLE"
EVAL_RECEIVED == "EVAL_RECEIVED"
EVAL_RECEIVED_CRC_ERR == "EVAL_RECEIVED_CRC_ERR"
EVAL_RECEIVED_SEQ_LOST == "EVAL_RECEIVED_SEQ_LOST"
EVAL_RECEIVED_HANDLED == "EVAL_RECEIVED_HANDLED"
EVAL_RECEIVED_TOTAL == "EVAL_RECEIVED_TOTAL"
EVAL_TRANSMITTED == "EVAL_TRANSMITTED"
EVAL_TRANSMITTED_TOTAL == "EVAL_TRANSMITTED_TOTAL"
SEND_INFO == "SEND_INFO"

State ==
    {IDLE, EVAL_RECEIVED, EVAL_RECEIVED_CRC_ERR, EVAL_RECEIVED_SEQ_LOST,
     EVAL_RECEIVED_HANDLED, EVAL_RECEIVED_TOTAL, EVAL_TRANSMITTED,
     EVAL_TRANSMITTED_TOTAL, SEND_INFO}

\* The states whose handler looks for a marker and extracts numbers
MarkerStates ==
    {EVAL_RECEIVED_CRC_ERR, EVAL_RECEIVED_SEQ_LOST, EVAL_RECEIVED_HANDLED,
     EVAL_RECEIVED_TOTAL, EVAL_TRANSMITTED_TOTAL}

\* ------------------------------------------------------------------- time
\* 0.9 s, in tenths of a second
Threshold == 9
\* sys.float_info.max: later than every time the clock shows
FloatMax == 2147483647

\* The comparison as it would be were the threshold itself counted as idle
last_update_at_threshold(timestamp, t) == timestamp <= t - Threshold

\* timestamp < (time.time() - 0.9), t the value of time.time()
last_update_over_a_second_ago(timestamp, t) == timestamp < t - Threshold

\* ---------------------------------------------------- boundary detection
\* The if / elif / elif chain over the three transport labels: the
\* connection type of a boundary line, "NONE" for any other line
ConnTypeOf(l) ==
    IF Contains(l, STR_TCP_ENDPOINT) THEN "TCP"
    ELSE IF Contains(l, STR_UDP_ENDPOINT) THEN "UDP"
    ELSE IF Contains(l, STR_UART_ENDPOINT) THEN "UART"
    ELSE "NONE"

read_endppoint_id(input_string) ==
    LET start == Find(input_string, <<"[">>, 0, Len(input_string)) + 1
        end == Find(input_string, <<"]">>, start, Len(input_string))
    IN  Str(Slice(input_string, start, end))

read_endppoint_name(input_string) ==
    LET start == Find(input_string, <<"]">>, 0, Len(input_string)) + 1
        end == Find(input_string, <<"{">>, start, Len(input_string)) - 1
    IN  Str(Slice(input_string, start, end))

\* ------------------------------------------------------------ metric lines
\* The pieces of text that write_metric_to_file puts around the values
LABEL_NAME == "{endpoint_name=\""
LABEL_CONN == "\",conn_type=\""
LABEL_ID == "\",endpoint_id=\""
LABEL_END == "\"} "
NEWLINE == "\n"

\* complete_string: metric{endpoint_name="..",conn_type="..",endpoint_id=".."} value\n
\* held as its variable parts; skip is the number of leading bytes of the
\* line that are missing from a file (0 for a whole line)
MetricLine(metric, name, conn, id, value) ==
    [metric |-> metric, endpoint_name |-> name, conn_type |-> conn,
     endpoint_id |-> id, value |-> value, skip |-> 0]

\* The number of bytes the line takes in a file
ByteLen(ln) ==
    Len(ln.metric) + Len(LABEL_NAME) + Len(ln.endpoint_name) + Len(LABEL_CONN)
    + Len(ln.conn_type) + Len(LABEL_ID) + Len(ln.endpoint_id) + Len(LABEL_END)
    + Len(ln.value) + Len(NEWLINE) - ln.skip

RECURSIVE TotalBytes(_)
TotalBytes(lines) ==
    IF lines = <<>> THEN 0 ELSE ByteLen(Head(lines)) + TotalBytes(Tail(lines))

\* ------------------------------------------------------------------ files
\* A file object: whether it is closed, and the lines written to it that
\* have not reached the disk. Less than one buffer (8192 bytes) is written
\* between open and close, so the buffer goes to disk only on close, at
\* offset 0.
OpenedFile == [closed |-> FALSE, buf |-> <<>>]
ClosedFile == [closed |-> TRUE, buf |-> <<>>]

\* What is left of a file's lines behind its first n bytes; a line cut in
\* two keeps its tail
RECURSIVE DropBytes(_, _)
DropBytes(lines, n) ==
    IF n = 0 \/ lines = <<>> THEN lines
    ELSE IF ByteLen(Head(lines)) <= n
         THEN DropBytes(Tail(lines), n - ByteLen(Head(lines)))
         ELSE <<[Head(lines) EXCEPT !.skip = @ + n]>> \o Tail(lines)

\* The file on disk after data is written over it from offset 0
WriteAtStart(disk, data) == data \o DropBytes(disk, TotalBytes(data))

\* file.close(), or the file object being dropped: the disk afterwards
FlushOnClose(file, disk) ==
    IF file.closed THEN disk ELSE WriteAtStart(disk, file.buf)

\* file.write(data_as_string)
write_data_to_textfile(file, data_as_string) ==
    [file EXCEPT !.buf = Append(@, data_as_string)]

write_metric_to_file(inp_file, inp_metric_str, inp_endpoint_name, inp_endpoint_conntype, inp_endpoint_id, inp_value) ==
    write_data_to_textfile(inp_file,
        MetricLine(inp_metric_str, inp_endpoint_name, inp_endpoint_conntype,
                   inp_endpoint_id, inp_value))

\* ------------------------------------------------ the state machine's rows
\* The marker a state's handler looks for
Marker(st) ==
    CASE st = EVAL_RECEIVED_CRC_ERR -> STR_CRC_ERROR
      [] st = EVAL_RECEIVED_SEQ_LOST -> STR_SEQUENCE_LOST
      [] st = EVAL_RECEIVED_HANDLED -> STR_HANDLED
      [] st = EVAL_RECEIVED_TOTAL -> STR_TOTAL
      [] st = EVAL_TRANSMITTED_TOTAL -> STR_TOTAL

\* The calls as they would be with two indexes exchanged in every handler
\* that makes more than one
FieldsExchanged(st) ==
    CASE st = EVAL_RECEIVED_CRC_ERR ->
           << <<METRIC_REC_CRCERR_CNT, 0>>, <<METRIC_REC_CRCERR_PCT, 2>>,
              <<METRIC_REC_CRCERR_KB, 1>> >>
      [] st = EVAL_RECEIVED_SEQ_LOST ->
           << <<METRIC_REC_SEQLOST_CNT, 1>>, <<METRIC_REC_SEQLOST_PCT, 0>> >>
      [] st = EVAL_RECEIVED_HANDLED ->
           << <<METRIC_REC_HANDLED_CNT, 1>>, <<METRIC_REC_HANDLED_KB, 0>> >>
      [] st = EVAL_RECEIVED_TOTAL ->
           << <<METRIC_REC_TOTAL_CNT, 0>> >>
      [] st = EVAL_TRANSMITTED_TOTAL ->
           << <<METRIC_TRANSM_TOTAL_CNT, 1>>, <<METRIC_TRANSM_TOTAL_KB, 0>> >>

\* The write_metric_to_file calls of a state's handler, in program order:
\* <<metric, index into digits>>
Fields(st) ==
    CASE st = EVAL_RECEIVED_CRC_ERR ->
           << <<METRIC_REC_CRCERR_CNT, 0>>, <<METRIC_REC_CRCERR_PCT, 1>>,
              <<METRIC_REC_CRCERR_KB, 2>> >>
      [] st = EVAL_RECEIVED_SEQ_LOST ->
           << <<METRIC_REC_SEQLOST_CNT, 0>>, <<METRIC_REC_SEQLOST_PCT, 1>> >>
      [] st = EVAL_RECEIVED_HANDLED ->
           << <<METRIC_REC_HANDLED_CNT, 0>>, <<METRIC_REC_HANDLED_KB, 1>> >>
      [] st = EVAL_RECEIVED_TOTAL ->
           << <<METRIC_REC_TOTAL_CNT, 0>> >>
      [] st = EVAL_TRANSMITTED_TOTAL ->
           << <<METRIC_TRANSM_TOTAL_CNT, 0>>, <<METRIC_TRANSM_TOTAL_KB, 1>> >>

\* The order in which the states are declared and traversed
TraversalOrder ==
    <<IDLE, EVAL_RECEIVED, EVAL_RECEIVED_CRC_ERR, EVAL_RECEIVED_SEQ_LOST,
      EVAL_RECEIVED_HANDLED, EVAL_RECEIVED_TOTAL, EVAL_TRANSMITTED,
      EVAL_TRANSMITTED_TOTAL, SEND_INFO, IDLE>>

\* The state that follows st in that order
Successor(st) ==
    TraversalOrder[(CHOOSE k \in 1..(Len(TraversalOrder) - 1) :
                        TraversalOrder[k] = st) + 1]

\* A state machine that waits in SEND_INFO
AdvanceStaysInSendInfo(st) == IF st = SEND_INFO THEN SEND_INFO ELSE Successor(st)

\* A state machine that leaves the transmitted section's start out
AdvanceSkipsTransmitted(st) ==
    IF st = EVAL_RECEIVED_TOTAL THEN EVAL_TRANSMITTED_TOTAL ELSE Successor(st)

\* next_state as each handler sets it once its line is accepted
Advance(st) ==
    CASE st = EVAL_RECEIVED -> EVAL_RECEIVED_CRC_ERR
      [] st = EVAL_RECEIVED_CRC_ERR -> EVAL_RECEIVED_SEQ_LOST
      [] st = EVAL_RECEIVED_SEQ_LOST -> EVAL_RECEIVED_HANDLED
      [] st = EVAL_RECEIVED_HANDLED -> EVAL_RECEIVED_TOTAL
      [] st = EVAL_RECEIVED_TOTAL -> EVAL_TRANSMITTED
      [] st = EVAL_TRANSMITTED -> EVAL_TRANSMITTED_TOTAL
      [] st = EVAL_TRANSMITTED_TOTAL -> SEND_INFO
      [] st = SEND_INFO -> IDLE

\* ------------------------------------------------------------------ input
STR_RECEIVED_MESSAGES == <<"R","e","c","e","i","v","e","d"," ","m","e","s","s","a","g","e","s">>
STR_TRANSMITTED_MESSAGES == <<"T","r","a","n","s","m","i","t","t","e","d"," ","m","e","s","s","a","g","e","s">>

\* "UDP Endpoint [1]gps {\n", a boundary line as mavlink-router prints it
L_UDP == STR_UDP_ENDPOINT \o <<" ","[","1","]","g","p","s"," ","{","\n">>
\* "TCP Endpoint [3](radio)\n", the boundary line of the interface description
L_TCP == STR_TCP_ENDPOINT \o <<" ","[","3","]","(","r","a","d","i","o",")","\n">>
\* "Received messages {\n"
L_RX == STR_RECEIVED_MESSAGES \o <<" ","{","\n">>
\* "CRC error: 5 0% 120KBytes\n"
L_CRC == STR_CRC_ERROR \o <<":"," ","5"," ","0","%"," ","1","2","0","K","B","y","t","e","s","\n">>
\* "CRC error: 5\n", two numbers short
L_CRC_SHORT == STR_CRC_ERROR \o <<":"," ","5","\n">>
\* "Sequence lost: 1 0%\n"
L_SEQ == STR_SEQUENCE_LOST \o <<":"," ","1"," ","0","%","\n">>
\* "Handled: 400 900KBytes\n"
L_HANDLED == STR_HANDLED \o <<":"," ","4","0","0"," ","9","0","0","K","B","y","t","e","s","\n">>
\* "Total: 406\n", the receive total (one number short as a transmit total)
L_TOTAL == STR_TOTAL \o <<":"," ","4","0","6","\n">>
\* "Total\n", no number
L_TOTAL_SHORT == STR_TOTAL \o <<"\n">>
\* "Transmitted messages {\n"
L_TX == STR_TRANSMITTED_MESSAGES \o <<" ","{","\n">>
\* "Total: 406 30KBytes\n", the transmit total
L_TX_TOTAL == STR_TOTAL \o <<":"," ","4","0","6"," ","3","0","K","B","y","t","e","s","\n">>
\* "}\n", the line that closes a section
L_CLOSE == <<"}","\n">>

\* "TCP Endpoint [x](radio)\n": a boundary line whose id is no number
L_TCP_NOID == STR_TCP_ENDPOINT \o <<" ","[","x","]","(","r","a","d","i","o",")","\n">>

\* "TCP Endpoint x\n": a boundary line without brackets
L_TCP_BARE == STR_TCP_ENDPOINT \o <<" ","x","\n">>

\* The lines that hold a transport label and 'Endpoint' but no id in brackets
Malformed == {L_TCP_NOID, L_TCP_BARE}

\* The lines stdin delivers
Lines ==
    {L_UDP, L_TCP, L_RX, L_CRC, L_CRC_SHORT, L_SEQ, L_HANDLED, L_TOTAL,
     L_TOTAL_SHORT, L_TX, L_TX_TOTAL, L_CLOSE}

\* The time between the end of one line's processing and the arrival of the
\* next: none, exactly the threshold, more than the threshold
Gaps == {0, Threshold, Threshold + 1}

\* The lines stdin delivers when the labels of the upstream are malformed
LabelLines ==
    Malformed \cup {L_RX, L_CRC, L_SEQ}

AllLines == Lines \cup LabelLines

\* What the loop body computes from each line stdin can deliver: the outcome
\* of the boundary branches' find calls, the endpoint read from the line, the
\* list re.findall returns, and the outcome of each handler's find call
Scan ==
    [l \in AllLines |->
        [conn |-> ConnTypeOf(l),
         name |-> read_endppoint_name(l),
         id |-> read_endppoint_id(l),
         digits |-> re_findall_digits(l),
         marker |-> [st \in MarkerStates |-> Contains(l, Marker(st))],
         received |-> Contains(l, STR_RECEIVED_MESSAGES),
         transmitted |-> Contains(l, STR_TRANSMITTED_MESSAGES)]]

\* The calls of one handler, from the j-th on: digits[k] raises IndexError
\* past the end of the list, file.write raises ValueError on a closed file,
\* and the calls before the one that raises have been made
RECURSIVE WriteFields(_, _, _, _, _, _, _)
WriteFields(file, fields, j, digits, name, conn, id) ==
    IF j > Len(fields) THEN [file |-> file, raised |-> "none"]
    ELSE IF fields[j][2] >= Len(digits)
         THEN [file |-> file, raised |-> "IndexError"]
    ELSE IF file.closed
         THEN [file |-> file, raised |-> "ValueError"]
    ELSE WriteFields(
             write_metric_to_file(file, fields[j][1], name, conn, id,
                                  digits[fields[j][2] + 1]),
             fields, j + 1, digits, name, conn, id)

\* A handler that gives the section up on a line without its marker
OnMismatchGiveUp(st, ns) == IDLE

\* The handler of a marker state on a line that does not hold the marker
OnMismatch(st, ns) == ns

\* The handler of a marker state: the file object, next_state and the
\* exception raised, if any
MarkerHandler(st, ns, l, file, name, conn, id) ==
    IF Scan[l].marker[st]
    THEN LET w == WriteFields(file, Fields(st), 1, Scan[l].digits,
                              name, conn, id)
         IN  [file |-> w.file, raised |-> w.raised,
              next_state |-> IF w.raised = "none" THEN Advance(st) ELSE ns]
    ELSE [file |-> file, raised |-> "none", next_state |-> OnMismatch(st, ns)]

\* The dispatch on current_state: the cache file object, the cache file on
\* disk, next_state and the exception raised, if any. EVAL_RECEIVED opens
\* the cache file anew with 'w+', which empties the file on disk, and then
\* drops the file object it held, whose buffer goes to the emptied file.
Handler(cs, ns, l, file, disk, name, conn, id) ==
    CASE cs = IDLE ->
           [file |-> file, disk |-> disk, raised |-> "none", next_state |-> ns]
      [] cs = EVAL_RECEIVED ->
           [file |-> OpenedFile, disk |-> FlushOnClose(file, <<>>),
            raised |-> "none", next_state |-> Advance(cs)]
      [] cs \in MarkerStates ->
           LET m == MarkerHandler(cs, ns, l, file, name, conn, id)
           IN  [file |-> m.file, disk |-> disk, raised |-> m.raised,
                next_state |-> m.next_state]
      [] cs \in {EVAL_TRANSMITTED, SEND_INFO} ->
           [file |-> file, disk |-> disk, raised |-> "none",
            next_state |-> Advance(cs)]

\* --------------------------------------------------------------- observer
\* The well-formed report of the interface description, line by line: the
\* k-th line after the boundary line
ReportLine(k, l) ==
    /\ Scan[l].conn = "NONE"
    /\ CASE k = 1 -> Scan[l].received
         [] k = 2 -> Scan[l].marker[EVAL_RECEIVED_CRC_ERR] /\ Len(Scan[l].digits) >= 3
         [] k = 3 -> Scan[l].marker[EVAL_RECEIVED_SEQ_LOST] /\ Len(Scan[l].digits) >= 2
         [] k = 4 -> Scan[l].marker[EVAL_RECEIVED_HANDLED] /\ Len(Scan[l].digits) >= 2
         [] k = 5 -> Scan[l].marker[EVAL_RECEIVED_TOTAL] /\ Len(Scan[l].digits) >= 1
         [] k = 6 -> Scan[l].transmitted
         [] k = 7 -> Scan[l].marker[EVAL_TRANSMITTED_TOTAL] /\ Len(Scan[l].digits) >= 2
         [] OTHER -> FALSE

\* What the input has been so far:
\*   pos    the last pos lines are the first pos lines of a well-formed
\*          report (8: a whole report), 0 when they are not
\*   start  the parser state in which that report's boundary line arrived
\*   ident  <<conn_type, id, name>> as read from that boundary line
\*   eps    the identities of the whole reports that arrived back to back,
\*          with no idle gap between them, up to the last line
\*   done   on a boundary line that follows a whole report after an idle
\*          gap: the identities of the round which that gap ended
NoReport ==
    [pos |-> 0, start |-> IDLE, ident |-> <<>>, eps |-> <<>>, done |-> <<>>]

\* The observer after the line l, which arrived in the parser state cs;
\* idle: l arrived more than the threshold after the line before it
Observe(o, l, idle, cs) ==
    IF Scan[l].conn # "NONE"
    THEN [pos |-> 1, start |-> cs,
          ident |-> <<Scan[l].conn, Scan[l].id, Scan[l].name>>,
          eps |-> IF o.pos = 8 /\ ~idle /\ Len(o.eps) < MaxRound
                  THEN o.eps ELSE <<>>,
          done |-> IF o.pos = 8 /\ idle THEN o.eps ELSE <<>>]
    ELSE IF o.pos \in 1..7 /\ ReportLine(o.pos, l)
    THEN [o EXCEPT !.pos = @ + 1,
                   !.eps = IF o.pos = 7 THEN Append(@, o.ident) ELSE @,
                   !.done = <<>>]
    ELSE NoReport

\* ------------------------------------------------------------------ state
VARIABLES
    pc,                  \* where the process is: "read", "pub_write",
                         \* "pub_close", "terminated"
    line,                \* the line being processed, or processed last
    late,                \* that line is a boundary line and arrived more
                         \* than the threshold after the last time stamp
    now,                 \* time.time(), counted from the last time stamp
    endpoint_ID, endpoint_name, endpoint_conn_type,
    current_state, next_state,
    last_time_stamp,
    cache_file,          \* the file object the metrics are written to
    cache_disk,          \* the cache file on disk
    prom_disk,           \* the .prom file on disk, as a scraper reads it
    prom_file_output,    \* update_prom_textfile's file object for the .prom file
    to_copy,             \* the lines of readlines() not yet written
    prom_prev,           \* the .prom file as it was when the publication began
    obs                  \* the observer of the input

vars ==
    <<pc, line, late, now, endpoint_ID, endpoint_name, endpoint_conn_type,
      current_state, next_state, last_time_stamp, cache_file, cache_disk,
      prom_disk, prom_file_output, to_copy, prom_prev, obs>>

InitProgram ==
    /\ pc = "read"
    /\ line = <<>>
    /\ late = FALSE
    /\ now = 0
    /\ endpoint_ID = DEFAULT
    /\ endpoint_name = DEFAULT
    /\ endpoint_conn_type = "DEFAULT"
    /\ current_state = IDLE
    /\ next_state = IDLE
    /\ last_time_stamp = FloatMax
    /\ cache_file = OpenedFile
    /\ cache_disk = <<>>
    /\ prom_disk = <<>>
    /\ prom_file_output = ClosedFile
    /\ to_copy = <<>>
    /\ prom_prev = <<>>

Init == InitProgram /\ obs = NoReport

\* ---------------------------------------------------------------- actions
\* The dispatch on current_state for the line l, and the end of the loop
\* body, where the time stamp is taken, which makes the clock read 0. An
\* exception ends the process: the interpreter closes the cache file object
\* on exit.
Body(l, ns, file, disk, name, conn, id) ==
    LET h == Handler(current_state, ns, l, file, disk, name, conn, id)
    IN  IF h.raised = "none"
        THEN /\ cache_file' = h.file
             /\ cache_disk' = h.disk
             /\ next_state' = h.next_state
             /\ current_state' = h.next_state
             /\ last_time_stamp' = 0
             /\ now' = 0
             /\ pc' = "read"
        ELSE /\ cache_file' = ClosedFile
             /\ cache_disk' = FlushOnClose(h.file, h.disk)
             /\ next_state' = ns
             /\ pc' = "terminated"
             /\ now' = 0
             /\ UNCHANGED <<current_state, last_time_stamp>>

\* A line that is no boundary line arrives: the loop body without the
\* boundary branches, where the clock is not read
ProcessLine(l) ==
    /\ pc = "read"
    /\ Scan[l].conn = "NONE"
    /\ line' = l
    /\ late' = FALSE
    /\ Body(l, next_state, cache_file, cache_disk,
            endpoint_name, endpoint_conn_type, endpoint_ID)
    /\ UNCHANGED <<endpoint_ID, endpoint_name, endpoint_conn_type, prom_disk,
                   prom_file_output, to_copy, prom_prev>>

\* A boundary line arrives d tenths of a second after the last time stamp
\* and last_update_over_a_second_ago is false: the endpoint is read from the
\* line, next_state is set, and the dispatch follows
ProcessBoundary(l, d) ==
    /\ pc = "read"
    /\ Scan[l].conn # "NONE"
    /\ ~last_update_over_a_second_ago(last_time_stamp, now + d)
    /\ line' = l
    /\ late' = (d > Threshold)
    /\ endpoint_conn_type' = Scan[l].conn
    /\ endpoint_name' = Scan[l].name
    /\ endpoint_ID' = Scan[l].id
    /\ Body(l, EVAL_RECEIVED, cache_file, cache_disk,
            endpoint_name', endpoint_conn_type', endpoint_ID')
    /\ UNCHANGED <<prom_disk, prom_file_output, to_copy, prom_prev>>

\* The loop as it would be were it to stop one line early
RECURSIVE WriteAllButLast(_, _)
WriteAllButLast(file, lines) ==
    IF Len(lines) <= 1 THEN file
    ELSE WriteAllButLast(write_data_to_textfile(file, Head(lines)), Tail(lines))

\* The lines of a list written to a file object, one write each
RECURSIVE WriteAll(_, _)
WriteAll(file, lines) ==
    IF lines = <<>> THEN file
    ELSE WriteAll(write_data_to_textfile(file, Head(lines)), Tail(lines))

\* A boundary line arrives d tenths of a second after the last time stamp
\* and last_update_over_a_second_ago is true: the endpoint is read from the
\* line, the cache file object is closed, and update_prom_textfile opens the
\* cache file for reading and the .prom file with 'w+', which empties the
\* .prom file on disk
BoundaryAfterIdle(l, d) ==
    /\ pc = "read"
    /\ Scan[l].conn # "NONE"
    /\ last_update_over_a_second_ago(last_time_stamp, now + d)
    /\ now' = now + d
    /\ line' = l
    /\ late' = (d > Threshold)
    /\ endpoint_conn_type' = Scan[l].conn
    /\ endpoint_name' = Scan[l].name
    /\ endpoint_ID' = Scan[l].id
    /\ cache_disk' = FlushOnClose(cache_file, cache_disk)
    /\ cache_file' = ClosedFile
    /\ prom_prev' = prom_disk
    /\ prom_disk' = <<>>
    /\ prom_file_output' = OpenedFile
    /\ to_copy' = cache_disk'
    /\ pc' = "pub_write"
    /\ UNCHANGED <<current_state, next_state, last_time_stamp>>

\* update_prom_textfile's loop: prom_file_output.write(single_line) for
\* every line that readlines() returned
PubWrite ==
    /\ pc = "pub_write"
    /\ prom_file_output' = WriteAll(prom_file_output, to_copy)
    /\ to_copy' = <<>>
    /\ pc' = "pub_close"
    /\ UNCHANGED <<line, late, now, endpoint_ID, endpoint_name,
                   endpoint_conn_type, current_state, next_state,
                   last_time_stamp, cache_file, cache_disk, prom_disk,
                   prom_prev, obs>>

\* update_prom_textfile's end: the .prom file is closed, which writes what
\* was buffered, and the cache file is emptied; then the rest of the loop
\* body for the boundary line: next_state = State.EVAL_RECEIVED and the
\* dispatch on current_state
PublishAndDispatch ==
    /\ pc = "pub_close"
    /\ prom_disk' = FlushOnClose(prom_file_output, prom_disk)
    /\ prom_file_output' = ClosedFile
    /\ prom_prev' = <<>>
    /\ Body(line, EVAL_RECEIVED, cache_file, <<>>,
            endpoint_name, endpoint_conn_type, endpoint_ID)
    /\ UNCHANGED <<line, late, endpoint_ID, endpoint_name,
                   endpoint_conn_type, to_copy>>

\* ------------------------------------------------- any input, any timing
ReadLine(l) == ProcessLine(l) /\ UNCHANGED obs

ReadBoundary(l, d) == ProcessBoundary(l, d) /\ UNCHANGED obs

ReadBoundaryIdle(l, d) == BoundaryAfterIdle(l, d) /\ UNCHANGED obs

PubClose == PublishAndDispatch /\ UNCHANGED obs

Next ==
    \/ \E l \in Lines : ReadLine(l)
    \/ \E l \in Lines, d \in Gaps : ReadBoundary(l, d)
    \/ \E l \in Lines, d \in Gaps : ReadBoundaryIdle(l, d)
    \/ PubWrite
    \/ PubClose

Spec == Init /\ [][Next]_vars

\* --------------------------------------- malformed labels, any timing
LabelLine(l) == ProcessLine(l) /\ UNCHANGED obs

LabelBoundary(l, d) == ProcessBoundary(l, d) /\ UNCHANGED obs

LabelBoundaryIdle(l, d) == BoundaryAfterIdle(l, d) /\ UNCHANGED obs

NextLabels ==
    \/ \E l \in LabelLines : LabelLine(l)
    \/ \E l \in LabelLines, d \in Gaps : LabelBoundary(l, d)
    \/ \E l \in LabelLines, d \in Gaps : LabelBoundaryIdle(l, d)
    \/ PubWrite
    \/ PubClose

SpecLabels == Init /\ [][NextLabels]_vars

\* ------------------------------------- well-formed reports, any timing
\* The upstream of the interface description: a report, once begun, is sent
\* whole and in order; between two reports anything may arrive
Expected(l) == obs.pos \in 1..7 => ReportLine(obs.pos, l)

RoundLine(l) ==
    /\ Expected(l)
    /\ ProcessLine(l)
    /\ obs' = Observe(obs, l, FALSE, current_state)

RoundBoundary(l, d) ==
    /\ Expected(l)
    /\ ProcessBoundary(l, d)
    /\ obs' = Observe(obs, l, d > Threshold, current_state)

RoundBoundaryIdle(l, d) ==
    /\ Expected(l)
    /\ BoundaryAfterIdle(l, d)
    /\ obs' = Observe(obs, l, d > Threshold, current_state)

NextRounds ==
    \/ \E l \in Lines : RoundLine(l)
    \/ \E l \in Lines, d \in Gaps : RoundBoundary(l, d)
    \/ \E l \in Lines, d \in Gaps : RoundBoundaryIdle(l, d)
    \/ PubWrite
    \/ PubClose

SpecRounds == Init /\ [][NextRounds]_vars

\* ------------------------------------------------- one round, fed twice
\* The lines of one endpoint's report, as the interface description gives them
Report(b) == <<b, L_RX, L_CRC, L_SEQ, L_HANDLED, L_TOTAL, L_TX, L_TX_TOTAL>>

\* What may follow a report before the next one begins
Filler == {<<>>, <<L_CLOSE>>}

\* The rounds of two endpoints
TwoEndpointRounds ==
    {Report(b[1]) \o f1 \o Report(b[2]) \o f2 :
        b \in {<<L_UDP, L_TCP>>, <<L_TCP, L_UDP>>}, f1 \in Filler, f2 \in Filler}

\* The input: the round r in one burst, an idle gap, r again in one burst,
\* an idle gap, and the boundary line that begins the next round
InputLen(r) == 2 * Len(r) + 1

InputLine(r, k) == IF k = InputLen(r) THEN r[1] ELSE r[((k - 1) % Len(r)) + 1]

InputGap(r, k) == IF k \in {Len(r) + 1, InputLen(r)} THEN Threshold + 1 ELSE 0

\* The observer of this input: the round, the number of lines taken, and
\* the .prom file as it was when the second feeding went on after the
\* publication on its first line
Fed(o) ==
    [o EXCEPT !.fed = @ + 1,
              !.first = IF o.fed = Len(o.round) + 1 THEN prom_disk ELSE @]

TwiceLine ==
    /\ obs.fed < InputLen(obs.round)
    /\ ProcessLine(InputLine(obs.round, obs.fed + 1))
    /\ obs' = Fed(obs)

TwiceBoundary ==
    /\ obs.fed < InputLen(obs.round)
    /\ ProcessBoundary(InputLine(obs.round, obs.fed + 1),
                       InputGap(obs.round, obs.fed + 1))
    /\ obs' = Fed(obs)

TwiceBoundaryIdle ==
    /\ obs.fed < InputLen(obs.round)
    /\ BoundaryAfterIdle(InputLine(obs.round, obs.fed + 1),
                         InputGap(obs.round, obs.fed + 1))
    /\ obs' = Fed(obs)

InitTwice ==
    /\ InitProgram
    /\ obs \in {[round |-> r, fed |-> 0, first |-> <<>>] : r \in TwoEndpointRounds}

NextTwice ==
    \/ TwiceLine
    \/ TwiceBoundary
    \/ TwiceBoundaryIdle
    \/ PubWrite
    \/ PubClose

SpecTwice == InitTwice /\ [][NextTwice]_vars

\* ------------------------------------- any input in one burst, with history
\* The lines stdin delivers in a burst of reports
BurstLines ==
    {L_UDP, L_TCP, L_RX, L_CRC, L_SEQ, L_HANDLED, L_TOTAL, L_TX, L_TX_TOTAL, L_CLOSE}

\* The metric names of the lines which the dispatch on current_state writes
\* to the cache file object for the line l
AppendedNames(l, ns, name, conn, id) ==
    LET h == Handler(current_state, ns, l, cache_file, cache_disk, name, conn, id)
        old == IF current_state = EVAL_RECEIVED THEN 0 ELSE Len(cache_file.buf)
    IN  [k \in 1..(Len(h.file.buf) - old) |-> h.file.buf[old + k].metric]

\* The observer of this input: the metric names appended to the cache since
\* the last boundary line
HistoryLine(l) ==
    /\ ProcessLine(l)
    /\ obs' = obs \o AppendedNames(l, next_state, endpoint_name,
                                    endpoint_conn_type, endpoint_ID)

HistoryBoundary(l) ==
    /\ ProcessBoundary(l, 0)
    /\ obs' = AppendedNames(l, EVAL_RECEIVED, Scan[l].name, Scan[l].conn,
                            Scan[l].id)

InitHistory == InitProgram /\ obs = <<>>

NextHistory ==
    \/ \E l \in BurstLines : HistoryLine(l)
    \/ \E l \in BurstLines : HistoryBoundary(l)

SpecHistory == InitHistory /\ [][NextHistory]_vars

\* ----------------------------------------------------- claims: vocabulary
\* The ten metric names, in the order a report writes them
MetricNames ==
    <<METRIC_REC_CRCERR_CNT, METRIC_REC_CRCERR_PCT, METRIC_REC_CRCERR_KB,
      METRIC_REC_SEQLOST_CNT, METRIC_REC_SEQLOST_PCT,
      METRIC_REC_HANDLED_CNT, METRIC_REC_HANDLED_KB,
      METRIC_REC_TOTAL_CNT,
      METRIC_TRANSM_TOTAL_CNT, METRIC_TRANSM_TOTAL_KB>>

\* The endpoint a metric line is labelled with
Identity(ln) == <<ln.conn_type, ln.endpoint_id, ln.endpoint_name>>

\* How many whole lines of a file carry the metric name for the endpoint
Count(file, ident, metric) ==
    Cardinality({k \in 1..Len(file) :
                    /\ file[k].skip = 0
                    /\ Identity(file[k]) = ident
                    /\ file[k].metric = metric})

\* Every line of the file is whole, and every endpoint that appears in it
\* has each of the ten metric names exactly once
CompleteReports(file) ==
    \A k \in 1..Len(file) :
        /\ file[k].skip = 0
        /\ \A n \in 1..Len(MetricNames) :
               Count(file, Identity(file[k]), MetricNames[n]) = 1

\* What the cache file holds for the next publication: the file on disk once
\* the file object is closed
CacheContent == FlushOnClose(cache_file, cache_disk)

IsPrefix(a, b) == Len(a) <= Len(b) /\ SubSeq(b, 1, Len(a)) = a

\* A step that takes a line from stdin; line' is that line
TakesLine == pc = "read" /\ line' \in Lines

\* A step that ends the processing of a line without an exception
EndsLine == pc \in {"read", "pub_close"} /\ pc' = "read"

\* ---------------------------------------------------------------- claims
\* C1: every publication writes only complete endpoint reports: once a
\* publication is done, every endpoint that appears in the .prom file has
\* each of the ten metric names exactly once.
C1_OnlyCompleteReports ==
    pc \in {"read", "terminated"} => CompleteReports(prom_disk)

\* C2: a reader of the .prom file that reads between the steps of
\* update_prom_textfile sees the whole snapshot published before or the
\* whole new snapshot, which is the cache file's content.
C2_AtomicForReader ==
    pc \in {"pub_write", "pub_close"} =>
        prom_disk = prom_prev \/ prom_disk = cache_disk

\* C3: in every parser state, once a boundary line has been processed the
\* parser state is EVAL_RECEIVED.
C3_BoundaryRestarts ==
    [][(EndsLine /\ Scan[line'].conn # "NONE") =>
           current_state' = EVAL_RECEIVED]_vars

\* C4: between two publications the cache only grows: what it held before a
\* line is a prefix of what it holds after the line, so nothing once
\* appended is lost or replaced before it is published.
C4_AppendOnly ==
    [][(pc = "read" /\ pc' = "read") =>
           IsPrefix(CacheContent, CacheContent')]_vars

\* The file holds the ten metric lines of the endpoint: every metric name
\* exactly once, on a whole line
HasReport(file, ident) ==
    \A n \in 1..Len(MetricNames) : Count(file, ident, MetricNames[n]) = 1

\* C5: when a round of whole reports is followed by an idle gap and then a
\* boundary line, the publication made on that boundary line leaves the ten
\* metric lines of every endpoint of the round in the .prom file.
C5_RoundPublished ==
    (pc = "read" /\ obs.pos = 1 /\ obs.done # <<>>) =>
        \A k \in 1..Len(obs.done) : HasReport(prom_disk, obs.done[k])

\* C6: after a whole report whose boundary line arrived in IDLE, the cache
\* holds for publication exactly ten lines, the k-th with the k-th metric
\* name, each labelled with the endpoint read from that boundary line.
C6_TenLinesOfTheReport ==
    (pc = "read" /\ obs.pos = 8 /\ obs.start = IDLE) =>
        /\ Len(CacheContent) = Len(MetricNames)
        /\ \A k \in 1..Len(CacheContent) :
               /\ CacheContent[k].skip = 0
               /\ CacheContent[k].metric = MetricNames[k]
               /\ Identity(CacheContent[k]) = obs.ident

\* The metrics of each marker line, as the interface description lists them
MetricsOf(st) ==
    CASE st = EVAL_RECEIVED_CRC_ERR ->
           <<METRIC_REC_CRCERR_CNT, METRIC_REC_CRCERR_PCT, METRIC_REC_CRCERR_KB>>
      [] st = EVAL_RECEIVED_SEQ_LOST ->
           <<METRIC_REC_SEQLOST_CNT, METRIC_REC_SEQLOST_PCT>>
      [] st = EVAL_RECEIVED_HANDLED ->
           <<METRIC_REC_HANDLED_CNT, METRIC_REC_HANDLED_KB>>
      [] st = EVAL_RECEIVED_TOTAL -> <<METRIC_REC_TOTAL_CNT>>
      [] st = EVAL_TRANSMITTED_TOTAL ->
           <<METRIC_TRANSM_TOTAL_CNT, METRIC_TRANSM_TOTAL_KB>>

\* The step takes, in a marker state, a line that holds the state's marker
TakesMarkerLine ==
    /\ TakesLine
    /\ current_state \in MarkerStates
    /\ Scan[line'].conn = "NONE"
    /\ Scan[line'].marker[current_state]

\* The step takes, in a marker state, a line that is no boundary line and
\* does not hold the state's marker
TakesMismatch ==
    /\ TakesLine
    /\ current_state \in MarkerStates
    /\ Scan[line'].conn = "NONE"
    /\ ~Scan[line'].marker[current_state]

C8_ShortLineSurvives ==
    [][(TakesMarkerLine
        /\ Len(Scan[line'].digits) < Len(MetricsOf(current_state))) =>
           pc' = "read"]_vars

\* C9: in a marker state, a line that is no boundary line and does not hold
\* the state's marker leaves the parser state and the cache as they are,
\* publishes nothing and does not end the process.
C9_MismatchRecovered ==
    [][TakesMismatch =>
           /\ pc' = "read"
           /\ current_state' = current_state
           /\ next_state' = current_state
           /\ cache_file' = cache_file
           /\ cache_disk' = cache_disk
           /\ prom_disk' = prom_disk]_vars

\* A closing brace has been taken while the handled line was awaited, after
\* the CRC-error and sequence-lost lines
C9_Witness ==
    /\ pc = "read"
    /\ line = L_CLOSE
    /\ current_state = EVAL_RECEIVED_HANDLED
    /\ Len(cache_file.buf) = 5

\* C10: update_prom_textfile is entered while a line is processed exactly
\* when the line is a boundary line that arrived more than the threshold
\* after the line before it; the first line has no line before it.
C10_IdleTriggered ==
    [][TakesLine =>
           (pc' = "pub_write" <=>
               /\ Scan[line'].conn # "NONE"
               /\ late'
               /\ last_time_stamp # FloatMax)]_vars

\* A publication of a cache that holds lines has been entered on a boundary
\* line that arrived late
C10_Witness ==
    /\ pc = "pub_write"
    /\ Scan[line].conn # "NONE"
    /\ late
    /\ to_copy # <<>>

\* C11: a publication leaves in the .prom file, line for line and in order,
\* what the cache held just before it, and leaves the cache empty: the cache
\* file that is copied is the cache as it was when the boundary line
\* arrived, it is not touched while it is copied, and when the publication
\* ends the .prom file equals it and the cache file and file object hold
\* nothing.
C11_PublishedEqualsCache ==
    [][/\ (pc = "read" /\ pc' = "pub_write") => cache_disk' = CacheContent
       /\ (pc = "pub_write" /\ pc' = "pub_close") => cache_disk' = cache_disk
       /\ pc = "pub_close" =>
              /\ pc' = "read"
              /\ prom_disk' = cache_disk
              /\ cache_disk' = <<>>
              /\ cache_file'.buf = <<>>]_vars

\* A publication of a whole report has just ended
C11_Witness ==
    /\ pc = "read"
    /\ late
    /\ Len(prom_disk) = 10
    /\ cache_disk = <<>>
    /\ prom_file_output.closed

\* C12: a line with a transport label and 'Endpoint' but a malformed id or
\* name is no boundary line: processing it leaves the connection type, the
\* id and the name as they were, starts no publication, and leaves the
\* parser in the state the handler of the current state gives for the line
C12_MalformedIsNoBoundary ==
    [][pc = "read" /\ line' \in Malformed =>
           /\ UNCHANGED <<endpoint_conn_type, endpoint_ID, endpoint_name>>
           /\ pc' # "pub_write"
           /\ pc' = "read" =>
                  current_state' =
                      Handler(current_state, next_state, line', cache_file,
                              cache_disk, endpoint_name, endpoint_conn_type,
                              endpoint_ID).next_state]_vars

\* C13: a boundary line of the form '<type> Endpoint [<id>](<name>)' sets
\* the endpoint context to exactly (type, id, name) without delimiters:
\* 'TCP Endpoint [3](radio)' gives ('TCP', '3', 'radio')
C13_ExactTriple ==
    [][pc = "read" /\ line' = L_TCP =>
           <<endpoint_conn_type', endpoint_ID', endpoint_name'>>
               = <<"TCP", "3", "radio">>]_vars

\* The metric names and labels of a file's lines, in order, without the values
Structure(file) == [k \in 1..Len(file) |-> [file[k] EXCEPT !.value = ""]]

\* C14: when the same complete round of two endpoints is fed twice in
\* succession, the file published for the second feeding has the same
\* metric names and labels in the same order as the file published for the
\* first
C14_TwiceTheSame ==
    (pc = "read" /\ obs.fed = InputLen(obs.round)) =>
        Structure(prom_disk) = Structure(obs.first)

\* C15: the two section-start states advance only on their marker: on a
\* line that is no boundary line and does not hold 'Received messages' the
\* parser stays in EVAL_RECEIVED, and on one that does not hold
\* 'Transmitted messages' it stays in EVAL_TRANSMITTED
C15_SectionStartWaits ==
    [][(pc = "read" /\ pc' = "read" /\ Scan[line'].conn = "NONE") =>
           /\ (current_state = EVAL_RECEIVED /\ ~Scan[line'].received) =>
                  current_state' = EVAL_RECEIVED
           /\ (current_state = EVAL_TRANSMITTED /\ ~Scan[line'].transmitted) =>
                  current_state' = EVAL_TRANSMITTED]_vars

\* C16: from SEND_INFO the next line, whatever it holds, moves the parser
\* to IDLE and appends nothing to the cache: no step of its processing
\* raises, the cache file and its file object stay as they are unless the
\* line is published on, in which case the cache is closed, copied and
\* emptied, and the processing ends in IDLE
C16_SendInfoToIdle ==
    [][current_state = SEND_INFO =>
           /\ pc' # "terminated"
           /\ (pc = "read" /\ pc' = "read") => UNCHANGED <<cache_file, cache_disk>>
           /\ (pc = "read" /\ pc' = "pub_write") =>
                  cache_file'.buf = <<>> /\ cache_disk' = CacheContent
           /\ pc = "pub_write" => UNCHANGED <<cache_file, cache_disk>>
           /\ pc = "pub_close" => cache_file'.buf = <<>> /\ cache_disk' = <<>>
           /\ EndsLine => current_state' = IDLE]_vars

\* A line has just been processed that arrived in SEND_INFO with a report
\* in the cache
C16_Witness ==
    /\ pc = "read"
    /\ current_state = IDLE
    /\ line = L_CLOSE
    /\ Len(CacheContent) = 10

\* C17: every line's processing leaves the state unchanged, moves it to its
\* immediate successor in the traversal order, or, only on a boundary
\* line, moves it to EVAL_RECEIVED; and IDLE is left only by a boundary line
C17_TraversalOrder ==
    [][EndsLine =>
           /\ \/ current_state' = current_state
              \/ current_state' = Successor(current_state)
              \/ current_state' = EVAL_RECEIVED /\ Scan[line'].conn # "NONE"
           /\ (current_state = IDLE /\ current_state' # IDLE) =>
                  Scan[line'].conn # "NONE"]_vars

\* The parser has gone through the whole order and is back in IDLE
C17_Witness ==
    /\ pc = "read"
    /\ current_state = IDLE
    /\ line = L_CLOSE
    /\ Len(CacheContent) = 10
    /\ prom_disk # <<>>

\* C18: the metric names appended to the cache between two consecutive
\* boundary lines form a prefix of the order of the ten names, so that no
\* transmit metric is buffered for an endpoint before its receive metrics
C18_PrefixOfTheOrder == IsPrefix(obs, MetricNames)

\* C19: a metric line is only ever written to an open cache file object: no
\* line's handler raises the ValueError of a write to a closed file
C19_WritesOnlyToOpenHandle ==
    [][(pc = "read" /\ Scan[line'].conn = "NONE") =>
           Handler(current_state, next_state, line', cache_file, cache_disk,
                   endpoint_name, endpoint_conn_type,
                   endpoint_ID).raised # "ValueError"]_vars

\* C20: once a snapshot that is not empty has been published, no later
\* publication leaves the .prom file empty
C20_NeverEmptiedAgain ==
    [][(pc = "pub_close" /\ prom_prev # <<>>) => prom_disk' # <<>>]_vars

====
